---- MODULE Spec2Model ----
(***************************************************************************)
(* Model of the action-binding engine of type-server: name derivation,     *)
(* member classification, the Action decorator, instance lifting and the   *)
(* call path of a lifted static callable.                                  *)
(***************************************************************************)
EXTENDS Integers, Sequences, FiniteSets, TLC

(***************************************************************************)
(* Bounds of the model.                                                    *)
(***************************************************************************)
\* longest member identifier explored
MaxLen == 3
\* entity ids are 1..MaxId
MaxId == 2
\* longest argument list passed after the id
MaxArgs == 2

VARIABLES
  \* ---- name derivation (Action, StaticMethod: snakeCaseName) ----
  propertyKey,     \* the member identifier handed to the decorator
  otherKey,        \* a second identifier, equal to propertyKey up to letter case
  npc,             \* position in the derivation: "start", "derived", "again", "pair"
  name,            \* propsWithDefaults.name
  path,            \* propsWithDefaults.path
  name2,           \* snakeCaseName of the already derived name
  otherName,       \* snakeCaseName of otherKey
  \* ---- one invocation of a synthesized static callable ----
  lifter,          \* which code synthesized the callable
  liftTarget,      \* the `target` the callable closes over: "ctor" or "proto"
  db,              \* ids of the entities the persistence layer holds
  rule,            \* the permission rule written on the action
  ctxUser,         \* context.user of the request
  lpc,             \* "idle", "loading", "running", "done"
  callId,          \* the id argument
  callArgs,        \* ...args
  loadCount,       \* load operations started by this invocation
  loadState,       \* "none", "pending", "resolved"
  instance,        \* what the callable holds in `instance`
  handlerCalls,    \* times the original instance method was started
  loadAtStart,     \* loadState at the moment the instance method started
  receiver,        \* `this` of the instance method
  handlerArgs,     \* arguments of the instance method
  handlerOutcome,  \* what the instance method returned or threw
  outcome,         \* what the static callable returned or threw
  \* ---- one application of the Action decorator to a class member ----
  target,          \* the decorator's target: "ctor" (static member) or "proto"
  memberKey,       \* the decorated member's identifier
  staticKind,      \* what the class itself declares under memberKey
  protoKind,       \* what the prototype declares under memberKey
  inputProps,      \* the props the caller passed to Action
  bpc,             \* "start", "done"
  decorator,       \* which Action ran: "methods.Action" or "Action"
  metadata,        \* reflect-metadata: entries [holder, prop, key, value]
  members,         \* properties assigned by lifting: [holder, name, fn]
  restRoutes,      \* registrations with the REST adapters (typescript-rest, tsoa)
  gqlOps,          \* type-graphql registrations
  thrown,          \* the error the decorator threw, "" for none
  branch,          \* branch Action took: "instance", "static", "neither", ""
  \* ---- evaluations of one permission rule ----
  evalRule,        \* the rule: a plain value or a predicate
  evalCtx,         \* the phase context of the coming or last evaluation
  evalVia,         \* "convertToValue" or "convertToPredicate", "" before the first
  evalOut,         \* value and predicate calls of the last evaluation
  evalLog,         \* per evaluation so far: its context and its value
  epc,             \* "idle", "evaluated"
  \* ---- one application of Param to a parameter of an action ----
  pVariant,        \* which Param ran: "methods.Param", "part_001.Param", "parameter.Param"
  pOptions,        \* the options the caller passed to Param
  pIndex,          \* parameterIndex
  pType,           \* a declared type handed to getGraphQLType
  gqlKind,         \* what getGraphQLType returned for pType, "" before
  restParams,      \* parameter extractors registered with the REST adapter
  gqlArgs,         \* arguments registered with the GraphQL adapter
  pThrown,         \* the error Param threw, "" for none
  ppc,             \* "start", "declared", "bound"
  \* ---- withScope calls on one ScopedContext ----
  scopeStack,      \* this.scopeStack
  calls,           \* per withScope call: its position, scope, action outcome, result
  open,            \* the calls that pushed and did not yet pop, in the order they began
  properlyNested,  \* every call so far settled as the latest one still open
  \* ---- AddCRUDAPI(params)(target) ----
  crudParams,      \* the caller's params: per rule absent, true, false, null or a predicate
  crudRules,       \* params after the merge over ADD_CRUD_API_DEFAULTS
  crudExposed,     \* the operations of the generated class
  crudGated,       \* the operations wrapped by permission enforcement
  crudThrown,      \* the error raised while the class was built, "" for none
  cpc              \* "start", "merged", "applied"

nameVars == <<propertyKey, otherKey, npc, name, path, name2, otherName>>

liftVars == <<lifter, liftTarget, db, rule, ctxUser, lpc, callId, callArgs, loadCount, loadState,
              instance, handlerCalls, loadAtStart, receiver, handlerArgs,
              handlerOutcome, outcome>>

bindVars == <<target, memberKey, staticKind, protoKind, inputProps, bpc, decorator,
              metadata, members, restRoutes, gqlOps, thrown, branch>>

evalVars == <<evalRule, evalCtx, evalVia, evalOut, evalLog, epc>>

paramVars == <<pVariant, pOptions, pIndex, pType, gqlKind, restParams, gqlArgs,
               pThrown, ppc>>

scopeVars == <<scopeStack, calls, open, properlyNested>>

crudVars == <<crudParams, crudRules, crudExposed, crudGated, crudThrown, cpc>>

vars == <<nameVars, liftVars, bindVars, evalVars, paramVars, scopeVars, crudVars>>

\* what the actions of each machine leave alone
notNameVars == <<liftVars, bindVars, evalVars, paramVars, scopeVars, crudVars>>
notLiftVars == <<nameVars, bindVars, evalVars, paramVars, scopeVars, crudVars>>
notBindVars == <<nameVars, liftVars, evalVars, paramVars, scopeVars, crudVars>>
notEvalVars == <<nameVars, liftVars, bindVars, paramVars, scopeVars, crudVars>>

(***************************************************************************)
(* Characters. An identifier is a sequence of one-character strings.       *)
(***************************************************************************)
\* the letters /[A-Z]/ matches, among the characters the model spells with
UpperCase == {"A", "B", "S"}
Separator == "_"
\* the characters the explored identifiers are drawn from
Alphabet == {"a", "b", "A", "B", Separator}

\* String.prototype.toLowerCase on one character
toLowerCase(c) ==
  CASE c = "A" -> "a"
    [] c = "B" -> "b"
    [] c = "S" -> "s"
    [] OTHER -> c

RECURSIVE SeqsUpTo(_)
SeqsUpTo(n) ==
  IF n = 0 THEN {<<>>}
  ELSE LET shorter == SeqsUpTo(n - 1)
       IN shorter \cup {Append(s, c) : s \in {t \in shorter : Len(t) = n - 1}, c \in Alphabet}

Identifiers == SeqsUpTo(MaxLen) \ {<<>>}

(***************************************************************************)
(* propertyKey.replace(/[A-Z]/g, (match) => `_${match.toLowerCase()}`)     *)
(***************************************************************************)
RECURSIVE replaceUpper(_)
replaceUpper(s) ==
  IF s = <<>> THEN <<>>
  ELSE (IF Head(s) \in UpperCase
          THEN <<Separator, toLowerCase(Head(s))>>
          ELSE <<Head(s)>>) \o replaceUpper(Tail(s))

\* the leading separator left in place
replaceLeadingKept(s) == s

\* .replace(/^_/, "")
replaceLeading(s) ==
  IF s # <<>> /\ Head(s) = Separator THEN Tail(s) ELSE s

snakeCaseName(key) == replaceLeading(replaceUpper(key))

\* path: props.path || "/" + snakeCaseName, no override given
defaultPath(key) == <<"/">> \o snakeCaseName(key)

(***************************************************************************)
(* Identifiers that differ from s only in the case of letters.             *)
(***************************************************************************)
(***************************************************************************)
(* Props of the Action decorator.  An absent string-valued key is <<>>,    *)
(* any other absent key is "undefined".                                    *)
(***************************************************************************)
NoProps ==
  [name |-> <<>>, path |-> <<>>, staticName |-> <<>>, method |-> "undefined",
   restVerb |-> "undefined", gqlMethod |-> "undefined",
   autogenTypeRest |-> "undefined", autogenTypeGQL |-> "undefined",
   typeRESTOptions |-> "undefined", typeGQLQueryOptions |-> "undefined",
   typeGQLMutationOptions |-> "undefined",
   typeGQLSubscriptionOptions |-> "undefined"]

(***************************************************************************)
(* Values a ValOrPred holds: a plain value, a named predicate, or the      *)
(* closure (...args) => value that convertToPredicate builds.              *)
(***************************************************************************)
Plain(v) == [kind |-> "plain", v |-> v]
Fn(n) == [kind |-> "fn", v |-> n]
ConstFn(v) == [kind |-> "constfn", v |-> v]
Thrown(e) == [kind |-> "throw", v |-> e]

\* the phase context: the current user and the owner of the entity at hand
PhaseContext(u, o) == [user |-> u, owner |-> o]

NoEval == [value |-> Plain("undefined"), calls |-> <<>>]

\* the rule evaluation at rest
EvalOff ==
  /\ evalRule = Plain("true")
  /\ evalCtx = PhaseContext("none", "u1")
  /\ evalVia = ""
  /\ evalOut = NoEval
  /\ evalLog = <<>>
  /\ epc = "off"

NoParamOptions ==
  [restFormat |-> "undefined", name |-> <<>>, required |-> "undefined",
   typeREST |-> "undefined", typeGQL |-> "undefined", type |-> "undefined"]

NoType == [typeof |-> "undefined", id |-> "undefined", values |-> {}]

\* the parameter decorator at rest
ParamOff ==
  /\ pVariant = ""
  /\ pOptions = NoParamOptions
  /\ pIndex = 0
  /\ pType = NoType
  /\ gqlKind = ""
  /\ restParams = {}
  /\ gqlArgs = {}
  /\ pThrown = ""
  /\ ppc = "off"

NoScope == [id |-> 0, overrides |-> ""]

NotSettled == [kind |-> "none", val |-> ""]

\* no withScope call on the context
ScopeOff ==
  /\ scopeStack = <<>>
  /\ calls = <<>>
  /\ open = <<>>
  /\ properlyNested = TRUE

CrudOps == {"Create", "Read", "Update", "Delete"}

\* AddCRUDAPI not called
CrudOff ==
  /\ crudParams = [op \in CrudOps |-> "absent"]
  /\ crudRules = [op \in CrudOps |-> "absent"]
  /\ crudExposed = {}
  /\ crudGated = {}
  /\ crudThrown = ""
  /\ cpc = "off"

\* the decorator machine at rest
BindOff ==
  /\ target = "ctor"
  /\ memberKey = <<>>
  /\ staticKind = "none"
  /\ protoKind = "none"
  /\ inputProps = NoProps
  /\ bpc = "off"
  /\ decorator = ""
  /\ metadata = {}
  /\ members = {}
  /\ restRoutes = {}
  /\ gqlOps = {}
  /\ thrown = ""
  /\ branch = ""

\* the invocation machine at rest, for specifications that do not run it
LiftOff ==
  /\ lifter = "createStaticMethod"
  /\ liftTarget = "ctor"
  /\ db = {}
  /\ rule = Plain("true")
  /\ ctxUser = "none"
  /\ lpc = "idle"
  /\ callId = 0
  /\ callArgs = <<>>
  /\ loadCount = 0
  /\ loadState = "none"
  /\ instance = [kind |-> "none", ids |-> <<>>]
  /\ handlerCalls = 0
  /\ loadAtStart = "none"
  /\ receiver = [kind |-> "none", ids |-> <<>>]
  /\ handlerArgs = <<>>
  /\ handlerOutcome = [kind |-> "none", val |-> ""]
  /\ outcome = [kind |-> "none", val |-> ""]

\* the name derivation at rest
NameOff ==
  /\ propertyKey = <<>>
  /\ otherKey = <<>>
  /\ npc = "off"
  /\ name = <<>>
  /\ path = <<>>
  /\ name2 = <<>>
  /\ otherName = <<>>

SameUpToCase(s, t) ==
  /\ Len(s) = Len(t)
  /\ \A i \in 1..Len(s) : toLowerCase(s[i]) = toLowerCase(t[i])

NameInit ==
  /\ propertyKey \in Identifiers
  /\ otherKey = <<>>
  /\ npc = "start"
  /\ name = <<>>
  /\ path = <<>>
  /\ name2 = <<>>
  /\ otherName = <<>>
  /\ LiftOff
  /\ BindOff
  /\ EvalOff
  /\ ParamOff
  /\ ScopeOff
  /\ CrudOff

\* Action / StaticMethod applied to propertyKey without name or path override
DeriveName ==
  /\ npc = "start"
  /\ name' = snakeCaseName(propertyKey)
  /\ path' = defaultPath(propertyKey)
  /\ npc' = "derived"
  /\ UNCHANGED <<propertyKey, otherKey, name2, otherName>>
  /\ UNCHANGED notNameVars

\* the decorator applied to a member whose identifier is the derived name
DeriveAgain ==
  /\ npc = "derived"
  /\ name2' = snakeCaseName(name)
  /\ npc' = "again"
  /\ UNCHANGED <<propertyKey, otherKey, name, path, otherName>>
  /\ UNCHANGED notNameVars

\* the decorator applied to a second member, spelled the same up to case
DeriveOther ==
  /\ npc = "derived"
  /\ \E k \in Identifiers :
       /\ k # propertyKey
       /\ SameUpToCase(k, propertyKey)
       /\ otherKey' = k
       /\ otherName' = snakeCaseName(k)
  /\ npc' = "pair"
  /\ UNCHANGED <<propertyKey, name, path, name2>>
  /\ UNCHANGED notNameVars

NameNext == DeriveName \/ DeriveAgain \/ DeriveOther

SpecName == NameInit /\ [][NameNext]_vars

(***************************************************************************)
(* Invocation of a synthesized static callable.                            *)
(***************************************************************************)
Ids == 1..MaxId
ArgValues == {"x", "y"}
ArgLists == UNION {[1..n -> ArgValues] : n \in 0..MaxArgs}
Lifters == {"createStaticMethod", "InstanceTypeAction", "PrepareModel"}
Rules == {Plain("true"), Plain("false"), Fn("isAuthenticated")}
Users == {"none", "u1"}

Val(kind, ids) == [kind |-> kind, ids |-> ids]
Out(kind, val) == [kind |-> kind, val |-> val]
NoOutcome == Out("none", "")
InstanceNotFound == Out("throw", "Instance not found")
Unauthorized == Out("throw", "Unauthorized")
LoadFailed == Out("throw", "load failed")
NoLoader == Out("throw", "target.findBy is not a function")
HandlerOutcomes == {Out("return", "r1"), Out("return", "r2"), Out("throw", "e1")}

\* BaseEntity.findBy({ id }): resolves to the array of matching entities
findBy(d, id) == Val("array", IF id \in d THEN <<id>> ELSE <<>>)

\* BaseEntity.findOne({ where: { id } }): resolves to the entity or null
findOne(d, id) == IF id \in d THEN Val("entity", <<id>>) ELSE Val("null", <<>>)

\* what the load of each synthesized callable resolves to
loadResult(l, d, id) == IF l = "PrepareModel" THEN findOne(d, id) ELSE findBy(d, id)

\* !instance is false for every object, an empty array and a promise included
Truthy(v) == v.kind \notin {"null", "undefined"}

\* a predicate rule applied to the request context
isAuthenticated(user) == user # "none"

\* isOwner(entity, context): entity.owner.id === context.user.id, which
\* throws when the context has no user
isOwner(ctx) ==
  IF ctx.user = "none" THEN Thrown("TypeError")
  ELSE Plain(IF ctx.owner = ctx.user THEN "true" ELSE "false")

\* typeof value === "function"
IsFunction(value) == value.kind \in {"fn", "constfn"}

\* fn(...args)
apply(fn, ctx) ==
  CASE fn.kind = "constfn" -> Plain(fn.v)
    [] fn.v = "isAuthenticated" ->
         Plain(IF isAuthenticated(ctx.user) THEN "true" ELSE "false")
    [] fn.v = "isOwner" -> isOwner(ctx)

\* a conversion that turns a plain rule into a boolean
convertToValueCoerced(value, ctx) ==
  IF IsFunction(value)
    THEN [value |-> apply(value, ctx), calls |-> <<[fn |-> value, args |-> ctx]>>]
    ELSE [value |-> Plain(IF value.v = "false" THEN "false" ELSE "true"), calls |-> <<>>]

\* a conversion that answers a predicate rule from the evaluation before
convertToValueMemo(value, ctx) ==
  IF IsFunction(value)
    THEN IF evalLog # <<>>
           THEN [value |-> evalLog[Len(evalLog)].value, calls |-> <<>>]
           ELSE [value |-> apply(value, ctx), calls |-> <<[fn |-> value, args |-> ctx]>>]
    ELSE [value |-> value, calls |-> <<>>]

\* convertToValue(value, ...args): the value returned and the calls made
convertToValue(value, ctx) ==
  IF IsFunction(value)
    THEN [value |-> apply(value, ctx), calls |-> <<[fn |-> value, args |-> ctx]>>]
    ELSE [value |-> value, calls |-> <<>>]

\* a conversion whose constant predicate answers with a boolean
convertToPredicateBoolean(value) ==
  IF IsFunction(value) THEN value
  ELSE ConstFn(IF value.v = "false" THEN "false" ELSE "true")

\* convertToPredicate(value)
convertToPredicate(value) ==
  IF IsFunction(value) THEN value ELSE ConstFn(value.v)

\* Permissions(): the decorator logs target and propertyKey and returns
\* nothing, so the decorated member stays the callable it was
Permissions(member) == member

\* the callable reached through the binding of an action decorated with
\* Permissions
boundCallable == Permissions(lifter)

LiftInit ==
  /\ lifter \in Lifters
  \* a method decorator closes over the prototype for an instance member and
  \* over the class for a static member taken for one; PrepareModel closes
  \* over the class it decorates
  /\ liftTarget \in {"ctor", "proto"}
  /\ lifter = "PrepareModel" => liftTarget = "ctor"
  /\ db \in SUBSET Ids
  /\ rule \in Rules
  /\ ctxUser \in Users
  /\ lpc = "idle"
  /\ callId = 0
  /\ callArgs = <<>>
  /\ loadCount = 0
  /\ loadState = "none"
  /\ instance = Val("none", <<>>)
  /\ handlerCalls = 0
  /\ loadAtStart = "none"
  /\ receiver = Val("none", <<>>)
  /\ handlerArgs = <<>>
  /\ handlerOutcome = NoOutcome
  /\ outcome = NoOutcome
  /\ NameOff
  /\ BindOff
  /\ EvalOff
  /\ ParamOff
  /\ ScopeOff
  /\ CrudOff

\* target.findBy, target.findOne: static members of BaseEntity, which the
\* class has and its prototype has not
hasLoader(obj) == obj = "ctor"

\* staticMethod(id, ...args) of a callable that closes over the prototype:
\* target.findBy is undefined and calling it throws before any load starts
CallWithoutLoader ==
  /\ lpc = "idle"
  /\ ~hasLoader(liftTarget)
  /\ \E id \in Ids, args \in ArgLists :
       /\ callId' = id
       /\ callArgs' = args
  /\ outcome' = NoLoader
  /\ lpc' = "done"
  /\ UNCHANGED <<lifter, liftTarget, db, rule, ctxUser, loadCount, loadState, instance,
                 handlerCalls, loadAtStart, receiver, handlerArgs, handlerOutcome>>
  /\ UNCHANGED notLiftVars

\* staticMethod(id, ...args) of createStaticMethod and of PrepareModel, up to
\* the await: the load is started and the callable suspends
CallAwaiting ==
  /\ lpc = "idle"
  /\ boundCallable \in {"createStaticMethod", "PrepareModel"}
  /\ hasLoader(liftTarget)
  /\ \E id \in Ids, args \in ArgLists :
       /\ callId' = id
       /\ callArgs' = args
  /\ loadCount' = loadCount + 1
  /\ loadState' = "pending"
  /\ lpc' = "loading"
  /\ UNCHANGED <<lifter, liftTarget, db, rule, ctxUser, instance, handlerCalls, loadAtStart,
                 receiver, handlerArgs, handlerOutcome, outcome>>
  /\ UNCHANGED notLiftVars

\* staticMethod(id, ...args) of InstanceTypeRESTAction / InstanceTypeGQLAction:
\* instance is the promise props.findById(id) returned, and the instance
\* method is applied to it at once
CallNotAwaiting ==
  /\ lpc = "idle"
  /\ boundCallable = "InstanceTypeAction"
  /\ hasLoader(liftTarget)
  /\ \E id \in Ids, args \in ArgLists :
       /\ callId' = id
       /\ callArgs' = args
       /\ handlerArgs' = args
  /\ loadCount' = loadCount + 1
  /\ loadState' = "pending"
  /\ instance' = Val("promise", <<>>)
  /\ receiver' = Val("promise", <<>>)
  /\ handlerCalls' = handlerCalls + 1
  /\ loadAtStart' = "pending"
  /\ lpc' = "running"
  /\ UNCHANGED <<lifter, liftTarget, db, rule, ctxUser, handlerOutcome, outcome>>
  /\ UNCHANGED notLiftVars

\* the persistence layer settles the pending load
LoadSettles ==
  /\ loadState = "pending"
  /\ loadState' = "resolved"
  /\ UNCHANGED <<lifter, liftTarget, db, rule, ctxUser, lpc, callId, callArgs, loadCount, instance,
                 handlerCalls, loadAtStart, receiver, handlerArgs, handlerOutcome,
                 outcome>>
  /\ UNCHANGED notLiftVars

\* the persistence layer fails the pending load
LoadRejects ==
  /\ loadState = "pending"
  /\ loadState' = "rejected"
  /\ UNCHANGED <<lifter, liftTarget, db, rule, ctxUser, lpc, callId, callArgs, loadCount, instance,
                 handlerCalls, loadAtStart, receiver, handlerArgs, handlerOutcome,
                 outcome>>
  /\ UNCHANGED notLiftVars

\* the await rethrows the load's error out of the callable
ResumeRejected ==
  /\ lpc = "loading"
  /\ loadState = "rejected"
  /\ outcome' = LoadFailed
  /\ lpc' = "done"
  /\ UNCHANGED <<lifter, liftTarget, db, rule, ctxUser, callId, callArgs, loadCount, loadState,
                 instance, handlerCalls, loadAtStart, receiver, handlerArgs,
                 handlerOutcome>>
  /\ UNCHANGED notLiftVars

\* after the await: if (!instance) throw new Error("Instance not found") ...
ResumeNotFound ==
  /\ lpc = "loading"
  /\ loadState = "resolved"
  /\ ~Truthy(loadResult(lifter, db, callId))
  /\ instance' = loadResult(lifter, db, callId)
  /\ outcome' = InstanceNotFound
  /\ lpc' = "done"
  /\ UNCHANGED <<lifter, liftTarget, db, rule, ctxUser, callId, callArgs, loadCount, loadState,
                 handlerCalls, loadAtStart, receiver, handlerArgs, handlerOutcome>>
  /\ UNCHANGED notLiftVars

\* ... return instanceMethod.apply(instance, args)
ResumeApply ==
  /\ lpc = "loading"
  /\ loadState = "resolved"
  /\ Truthy(loadResult(lifter, db, callId))
  /\ instance' = loadResult(lifter, db, callId)
  /\ receiver' = loadResult(lifter, db, callId)
  /\ handlerArgs' = callArgs
  /\ handlerCalls' = handlerCalls + 1
  /\ loadAtStart' = loadState
  /\ lpc' = "running"
  /\ UNCHANGED <<lifter, liftTarget, db, rule, ctxUser, callId, callArgs, loadCount, loadState,
                 handlerOutcome, outcome>>
  /\ UNCHANGED notLiftVars

\* the instance method settles and the callable settles the same way
HandlerSettles ==
  /\ lpc = "running"
  /\ \E o \in HandlerOutcomes :
       /\ handlerOutcome' = o
       /\ outcome' = o
  /\ lpc' = "done"
  /\ UNCHANGED <<lifter, liftTarget, db, rule, ctxUser, callId, callArgs, loadCount, loadState,
                 instance, handlerCalls, loadAtStart, receiver, handlerArgs>>
  /\ UNCHANGED notLiftVars

\* the request is over (its load has settled); the callable can be invoked again
NextRequest ==
  /\ lpc = "done"
  /\ loadState \in {"resolved", "rejected"} \/ outcome = NoLoader
  /\ lpc' = "idle"
  /\ callId' = 0
  /\ callArgs' = <<>>
  /\ loadCount' = 0
  /\ loadState' = "none"
  /\ instance' = Val("none", <<>>)
  /\ handlerCalls' = 0
  /\ loadAtStart' = "none"
  /\ receiver' = Val("none", <<>>)
  /\ handlerArgs' = <<>>
  /\ handlerOutcome' = NoOutcome
  /\ outcome' = NoOutcome
  /\ \E u \in Users : ctxUser' = u
  /\ UNCHANGED <<lifter, liftTarget, db, rule>>
  /\ UNCHANGED notLiftVars

LiftNext ==
  \/ CallWithoutLoader
  \/ CallAwaiting
  \/ CallNotAwaiting
  \/ LoadSettles
  \/ LoadRejects
  \/ ResumeRejected
  \/ ResumeNotFound
  \/ ResumeApply
  \/ HandlerSettles
  \/ NextRequest

SpecLift == LiftInit /\ [][LiftNext]_vars

(***************************************************************************)
(* Evaluations of one permission rule, one per request, each with the      *)
(* phase context of its own request.                                       *)
(***************************************************************************)
MaxEvals == 3

RuleValues == {Plain("true"), Plain("false"), Plain("Hello"),
               Fn("isAuthenticated"), Fn("isOwner")}
EvalUsers == {"none", "u1", "u2"}
Owners == {"u1", "u2"}
Contexts == {PhaseContext(u, o) : u \in EvalUsers, o \in Owners}

EvalInit ==
  /\ evalRule \in RuleValues
  /\ evalCtx \in Contexts
  /\ evalVia = ""
  /\ evalOut = NoEval
  /\ evalLog = <<>>
  /\ epc = "idle"
  /\ NameOff
  /\ LiftOff
  /\ BindOff
  /\ ParamOff
  /\ ScopeOff
  /\ CrudOff

\* convertToValue(rule, context)
Evaluate ==
  /\ epc = "idle"
  /\ evalOut' = convertToValue(evalRule, evalCtx)
  /\ evalLog' = Append(evalLog, [ctx |-> evalCtx, value |-> evalOut'.value])
  /\ evalVia' = "convertToValue"
  /\ epc' = "evaluated"
  /\ UNCHANGED <<evalRule, evalCtx>>
  /\ UNCHANGED notEvalVars

\* convertToPredicate(rule)(context)
EvaluatePredicate ==
  /\ epc = "idle"
  /\ LET predicate == convertToPredicate(evalRule)
     IN evalOut' = [value |-> apply(predicate, evalCtx),
                    calls |-> <<[fn |-> predicate, args |-> evalCtx]>>]
  /\ evalLog' = Append(evalLog, [ctx |-> evalCtx, value |-> evalOut'.value])
  /\ evalVia' = "convertToPredicate"
  /\ epc' = "evaluated"
  /\ UNCHANGED <<evalRule, evalCtx>>
  /\ UNCHANGED notEvalVars

\* the next request arrives with its own user and entity state
NextEvaluation ==
  /\ epc = "evaluated"
  /\ Len(evalLog) < MaxEvals
  /\ \E c \in Contexts : evalCtx' = c
  /\ epc' = "idle"
  /\ UNCHANGED <<evalRule, evalVia, evalOut, evalLog>>
  /\ UNCHANGED notEvalVars

EvalNext == Evaluate \/ EvaluatePredicate \/ NextEvaluation

SpecEval == EvalInit /\ [][EvalNext]_vars

(***************************************************************************)
(* The objects a method decorator sees.  "ctor" is the class, "proto" its  *)
(* prototype, "Function" the constructor of every class.  A member is a    *)
(* method ("fn"), something that is not callable ("val") or absent.        *)
(***************************************************************************)
toStringKey == <<"t", "o", "S", "t", "r", "i", "n", "g">>
bindKey == <<"b", "i", "n", "d">>
renameKey == <<"r", "e", "n", "a", "m", "e">>
MemberKeys == {renameKey, toStringKey, bindKey}

\* functions every object inherits from Object.prototype
ObjectPrototypeFns == {toStringKey}
\* functions every function inherits from Function.prototype
FunctionPrototypeFns == {bindKey}

ownKind(obj, k) ==
  CASE obj = "ctor" /\ k = memberKey -> staticKind
    [] obj = "proto" /\ k = memberKey -> protoKind
    [] OTHER -> "none"

inheritedKind(obj, k) ==
  IF k \in ObjectPrototypeFns THEN "fn"
  ELSE IF obj \in {"ctor", "Function"} /\ k \in FunctionPrototypeFns THEN "fn"
  ELSE "none"

\* obj[k], own property first, then the prototype chain
kindOf(obj, k) == IF ownKind(obj, k) # "none" THEN ownKind(obj, k) ELSE inheritedKind(obj, k)

\* obj.constructor
constructorOf(obj) == IF obj = "proto" THEN "ctor" ELSE "Function"

\* methodName in type && typeof type[methodName] === "function"
isStaticMethod(type, methodName) ==
  /\ kindOf(type, methodName) # "none"
  /\ kindOf(type, methodName) = "fn"

\* methodName in instance && typeof instance[methodName] === "function" &&
\* !isStaticMethod(instance.constructor, methodName)
isInstanceMethod(inst, methodName) ==
  /\ kindOf(inst, methodName) # "none"
  /\ kindOf(inst, methodName) = "fn"
  /\ ~isStaticMethod(constructorOf(inst), methodName)

(***************************************************************************)
(* reflect-metadata and the registries of the two adapters.                *)
(***************************************************************************)
ACTION_DECORATOR_KEY == "custom:tensaco-type-server-action"
ACTION_PARAM_DECORATOR_KEY == "custom:tensaco-type-server-action-param"
CONTEXT_PARAM_DECORATOR_KEY == "custom:tensaco-type-server-context-param"
PERMISSION_KEY == "permission"
NoProp == <<"undefined">>

Meta(holder, prop, key, props, index) ==
  [holder |-> holder, prop |-> prop, key |-> key, props |-> props, index |-> index]

\* Reflect.defineMetadata(key, value, holder, prop): one value per key and slot
defineMetadata(md, e) ==
  {m \in md : ~(m.holder = e.holder /\ m.prop = e.prop /\ m.key = e.key)} \cup {e}

\* target[name] = fn
assign(ms, holder, nm, fn) ==
  {m \in ms : ~(m.holder = holder /\ m.name = nm)}
    \cup {[holder |-> holder, name |-> nm, fn |-> fn]}

RestVerbs == {"GET", "POST", "PUT", "DELETE", "PATCH", "OPTIONS", "HEAD"}
VerbsWithBody == {"POST", "PUT", "DELETE", "PATCH"}

Bound(md, ms, rr, go, err, br) ==
  [metadata |-> md, members |-> ms, rest |-> rr, gql |-> go, thrown |-> err, branch |-> br]

StaticSuffix == <<"S", "t", "a", "t", "i", "c">>

\* a toggle that the caller's value decides even when the option object is given
autogenCallerWins(toggle, optionsGiven) ==
  IF toggle # "undefined" THEN toggle ELSE "true"

\* one toggle of the merged props: the default true, overridden by ...props,
\* overridden by ...(props.<options> ? { <toggle>: true } : {})
autogen(toggle, optionsGiven) ==
  IF optionsGiven THEN "true"
  ELSE IF toggle # "undefined" THEN toggle
  ELSE "true"

\* props = { ...DEFAULT_ACTION_PROPS, path, staticName, ...props, forced toggles }
mergeProps(p, key) ==
  [name |-> <<>>,
   method |-> "undefined",
   path |-> IF p.path # <<>> THEN p.path ELSE <<"/">> \o snakeCaseName(key),
   staticName |-> IF p.staticName # <<>> THEN p.staticName
                  ELSE snakeCaseName(key) \o StaticSuffix,
   restVerb |-> p.restVerb,
   gqlMethod |-> IF p.gqlMethod # "undefined" THEN p.gqlMethod ELSE "query",
   autogenTypeRest |-> autogen(p.autogenTypeRest, p.typeRESTOptions # "undefined"),
   autogenTypeGQL |-> autogen(p.autogenTypeGQL,
                              \/ p.typeGQLQueryOptions # "undefined"
                              \/ p.typeGQLMutationOptions # "undefined"
                              \/ p.typeGQLSubscriptionOptions # "undefined"),
   typeRESTOptions |-> IF p.typeRESTOptions # "undefined" THEN p.typeRESTOptions
                       ELSE "default",
   typeGQLQueryOptions |-> IF p.typeGQLQueryOptions # "undefined"
                             THEN p.typeGQLQueryOptions ELSE "default",
   typeGQLMutationOptions |-> IF p.typeGQLMutationOptions # "undefined"
                                THEN p.typeGQLMutationOptions ELSE "default",
   typeGQLSubscriptionOptions |-> p.typeGQLSubscriptionOptions]

\* StaticTypeRESTAction(props)(holder, prop, descriptor)
StaticTypeRESTAction(st, p, holder, prop) ==
  IF st.thrown # "" THEN st
  ELSE LET withPath ==
             IF p.path # <<>>
               THEN st.rest \cup {[adapter |-> "typescript-rest", holder |-> holder, prop |-> prop,
                                   what |-> "Path", arg |-> p.path]}
               ELSE st.rest
           verb == [adapter |-> "typescript-rest", holder |-> holder, prop |-> prop,
                    what |-> p.restVerb, arg |-> <<>>]
           body == [adapter |-> "typescript-rest", holder |-> holder, prop |-> prop,
                    what |-> "BodyOptions", arg |-> <<>>]
       IN IF p.restVerb \in RestVerbs
            THEN [st EXCEPT !.rest = withPath \cup {verb}
                              \cup (IF p.restVerb \in VerbsWithBody THEN {body} ELSE {})]
            ELSE [st EXCEPT !.rest = withPath, !.thrown = "Invalid restVerb"]

\* StaticTypeGQLAction(props)(holder, prop, descriptor)
StaticTypeGQLAction(st, p, holder, prop) ==
  IF st.thrown # "" THEN st
  ELSE LET op == [holder |-> holder, prop |-> prop, kind |-> p.gqlMethod]
       IN CASE p.gqlMethod \in {"query", "mutation"} ->
                 [st EXCEPT !.gql = st.gql \cup {op}]
            [] p.gqlMethod = "subscription" ->
                 IF p.typeGQLSubscriptionOptions = "undefined"
                   THEN [st EXCEPT !.thrown = "typeGQLSubscriptionOptions is required"]
                   ELSE [st EXCEPT !.gql = st.gql \cup {op}]
            [] OTHER -> [st EXCEPT !.thrown = "Invalid gqlMethod"]

\* createStaticMethod(holder, key, descriptor, props): the new closure fn is
\* stored under props.staticName || key and receives the metadata found on
\* the function object instanceMethod
createStaticMethod(st, p, holder, key, fn) ==
  IF st.thrown # "" THEN st
  ELSE IF kindOf(holder, key) # "fn"
         THEN [st EXCEPT !.thrown = "Instance method is undefined"]
  ELSE LET staticName == IF p.staticName # <<>> THEN p.staticName ELSE key
           copied == {Meta(fn, NoProp, m.key, m.props, m.index) :
                        m \in {x \in st.metadata :
                                 x.holder = "instanceMethod" /\ x.prop = NoProp}}
       IN [st EXCEPT !.members = assign(st.members, holder, staticName, fn),
                     !.metadata = {m \in st.metadata :
                                     ~(m.holder = fn /\ m.prop = NoProp
                                       /\ \E c \in copied : c.key = m.key)}
                                  \cup copied]

staticNameOf(p, key) == IF p.staticName # <<>> THEN p.staticName ELSE key

\* InstanceTypeGQLAction(props)(holder, key, descriptor)
InstanceTypeGQLAction(st, p, holder, key) ==
  StaticTypeGQLAction(createStaticMethod(st, p, holder, key, "staticMethod:gql"),
                      p, holder, staticNameOf(p, key))

\* a REST lifter that binds the route to the member it was given
InstanceTypeRESTActionUnlifted(st, p, holder, key) ==
  StaticTypeRESTAction(createStaticMethod(st, p, holder, key, "staticMethod:rest"),
                       p, holder, key)

\* InstanceTypeRESTAction(props)(holder, key, descriptor)
InstanceTypeRESTAction(st, p, holder, key) ==
  StaticTypeRESTAction(createStaticMethod(st, p, holder, key, "staticMethod:rest"),
                       p, holder, staticNameOf(p, key))

\* a toggle test that only asks whether the toggle has a value
enabledWhenDefined(toggle) == toggle # "undefined"

\* if (props.autogenTypeGQL), if (props.autogenTypeRest)
enabled(toggle) == toggle = "true"

\* Action(props)(holder, key, descriptor), the binding decorator
ActionBind(st, input, holder, key) ==
  LET p == mergeProps(input, key)
      s0 == [st EXCEPT !.metadata =
               defineMetadata(st.metadata,
                              Meta(holder, key, ACTION_PARAM_DECORATOR_KEY, p, 0))]
  IN IF isInstanceMethod(holder, key)
       THEN LET s1 == IF enabled(p.autogenTypeGQL)
                        THEN InstanceTypeGQLAction(s0, p, holder, key) ELSE s0
                s2 == IF s1.thrown = "" /\ enabled(p.autogenTypeRest)
                        THEN InstanceTypeRESTAction(s1, p, holder, key) ELSE s1
            IN [s2 EXCEPT !.branch = "instance"]
     ELSE IF isStaticMethod(holder, key)
       THEN LET s1 == IF enabled(p.autogenTypeGQL)
                        THEN StaticTypeGQLAction(s0, p, holder, key) ELSE s0
                s2 == IF s1.thrown = "" /\ enabled(p.autogenTypeRest)
                        THEN StaticTypeRESTAction(s1, p, holder, key) ELSE s1
            IN [s2 EXCEPT !.branch = "static"]
     ELSE [s0 EXCEPT !.branch = "neither",
                     !.thrown = "Method is not a static or instance method"]

\* Action(props)(holder, key, descriptor), the descriptor-only decorator
ActionDescribe(st, input, holder, key) ==
  LET isStatic == isStaticMethod(holder, key)
      isInstance == isInstanceMethod(holder, key)
      propsWithDefaults ==
        [NoProps EXCEPT
           !.name = IF input.name # <<>> THEN input.name ELSE snakeCaseName(key),
           !.path = IF input.path # <<>> THEN input.path
                    ELSE <<"/">> \o snakeCaseName(key),
           !.method = input.method]
  IN IF ~isStatic /\ ~isInstance
       THEN [st EXCEPT !.branch = "neither",
                       !.thrown = "The decorated method must be either static or instance method"]
       ELSE [st EXCEPT !.metadata =
               defineMetadata(st.metadata,
                              Meta(holder, key, ACTION_DECORATOR_KEY, propsWithDefaults, 0))]

(***************************************************************************)
(* Inputs of one decorator application.                                    *)
(***************************************************************************)
customPath == <<"/", "c">>
customStaticName == <<"c", "S">>
customName == <<"c">>
Toggle == {"undefined", "true", "false"}
Given == {"undefined", "given"}

BindPropsInputs ==
  {[NoProps EXCEPT !.path = pa, !.staticName = sn, !.restVerb = rv, !.gqlMethod = gm,
                   !.autogenTypeRest = ar, !.autogenTypeGQL = ag,
                   !.typeRESTOptions = ro,
                   !.typeGQLQueryOptions = IF go = "query" THEN "given" ELSE "undefined",
                   !.typeGQLMutationOptions = IF go = "mutation" THEN "given" ELSE "undefined",
                   !.typeGQLSubscriptionOptions =
                      IF go = "subscription" THEN "given" ELSE "undefined"] :
     pa \in {<<>>, customPath}, sn \in {<<>>, customStaticName},
     rv \in {"undefined", "PATCH", "TRACE"},
     gm \in {"undefined", "mutation", "subscription", "fragment"},
     ar \in Toggle, ag \in Toggle, ro \in Given,
     go \in {"none", "query", "mutation", "subscription"}}

DescribePropsInputs ==
  {[NoProps EXCEPT !.name = nm, !.path = pa, !.method = me] :
     nm \in {<<>>, customName}, pa \in {<<>>, customPath}, me \in {"GET", "POST"}}

BindInit ==
  /\ target \in {"ctor", "proto"}
  /\ memberKey \in MemberKeys
  /\ staticKind \in {"none", "fn", "val"}
  /\ protoKind \in {"none", "fn", "val"}
  \* the decorated member is declared where the decorator is applied
  /\ target = "ctor" => staticKind # "none"
  /\ target = "proto" => protoKind # "none"
  /\ inputProps = NoProps
  /\ bpc = "start"
  /\ decorator = ""
  /\ metadata = {}
  /\ members = {}
  /\ restRoutes = {}
  /\ gqlOps = {}
  /\ thrown = ""
  /\ branch = ""
  /\ NameOff
  /\ LiftOff
  /\ EvalOff
  /\ ParamOff
  /\ ScopeOff
  /\ CrudOff

bound == Bound(metadata, members, restRoutes, gqlOps, thrown, branch)

Install(st) ==
  /\ metadata' = st.metadata
  /\ members' = st.members
  /\ restRoutes' = st.rest
  /\ gqlOps' = st.gql
  /\ thrown' = st.thrown
  /\ branch' = st.branch

\* Context(), a parameter decorator: runs before the method decorators and
\* records the parameter index under the member
ContextParam ==
  /\ bpc = "start"
  /\ \A m \in metadata : m.key # CONTEXT_PARAM_DECORATOR_KEY
  /\ metadata' = defineMetadata(metadata,
                   Meta(target, memberKey, CONTEXT_PARAM_DECORATOR_KEY, NoProps, 0))
  /\ UNCHANGED <<target, memberKey, staticKind, protoKind, inputProps, bpc, decorator,
                 members, restRoutes, gqlOps, thrown, branch>>
  /\ UNCHANGED notBindVars

\* a decorator written below Action that defines metadata on the method's
\* function object, Reflect.defineMetadata(key, value, descriptor.value)
FunctionMetadata ==
  /\ bpc = "start"
  /\ kindOf(target, memberKey) = "fn"
  /\ \A m \in metadata : m.key # PERMISSION_KEY
  /\ metadata' = defineMetadata(metadata,
                   Meta("instanceMethod", NoProp, PERMISSION_KEY, NoProps, 1))
  /\ UNCHANGED <<target, memberKey, staticKind, protoKind, inputProps, bpc, decorator,
                 members, restRoutes, gqlOps, thrown, branch>>
  /\ UNCHANGED notBindVars

\* @Action(props) of the binding engine is applied to the member
ApplyAction ==
  /\ bpc = "start"
  /\ \E input \in BindPropsInputs :
       /\ inputProps' = input
       /\ Install(ActionBind(bound, input, target, memberKey))
  /\ decorator' = "Action"
  /\ bpc' = "done"
  /\ UNCHANGED <<target, memberKey, staticKind, protoKind>>
  /\ UNCHANGED notBindVars

\* @Action(props) of methods.ts is applied to the member
ApplyActionDescribe ==
  /\ bpc = "start"
  /\ \E input \in DescribePropsInputs :
       /\ inputProps' = input
       /\ Install(ActionDescribe(bound, input, target, memberKey))
  /\ decorator' = "methods.Action"
  /\ bpc' = "done"
  /\ UNCHANGED <<target, memberKey, staticKind, protoKind>>
  /\ UNCHANGED notBindVars

\* a class decorator that writes the name it binds back into the stored props
PrepareModelRewriting(st, key) ==
  [st EXCEPT !.metadata =
     {IF m.key = ACTION_PARAM_DECORATOR_KEY
        THEN [m EXCEPT !.props.staticName = key] ELSE m : m \in st.metadata}]

\* PrepareModel()(cls), the class decorator: for each function among the own
\* properties of cls.prototype that carries action props, lift it when
\* isInstanceMethod(cls, methodName) and bind the static callable by name
PrepareModel(st, key) ==
  IF ~(protoKind = "fn" /\ \E m \in st.metadata :
         m.holder = "proto" /\ m.prop = key /\ m.key = ACTION_PARAM_DECORATOR_KEY)
    THEN st
  ELSE
    LET actionMetadata ==
          (CHOOSE m \in st.metadata :
             m.holder = "proto" /\ m.prop = key /\ m.key = ACTION_PARAM_DECORATOR_KEY).props
        lifted == isInstanceMethod("ctor", key)
        staticMethodName == IF lifted THEN actionMetadata.staticName ELSE key
        s1 == IF lifted
                THEN [st EXCEPT !.members =
                        assign(st.members, "ctor", staticMethodName, "staticMethod:PrepareModel")]
                ELSE st
        s2 == IF actionMetadata.autogenTypeGQL # "true" THEN s1
              ELSE IF actionMetadata.gqlMethod \in {"query", "mutation", "subscription"}
                THEN [s1 EXCEPT !.gql = s1.gql \cup
                        {[holder |-> "ctor", prop |-> staticMethodName,
                          kind |-> actionMetadata.gqlMethod]}]
              ELSE [s1 EXCEPT !.thrown = "Unsupported GQL method"]
    IN IF s2.thrown # "" \/ actionMetadata.autogenTypeRest # "true" THEN s2
       ELSE IF actionMetadata.restVerb \in RestVerbs
         THEN [s2 EXCEPT
                 !.rest = s2.rest \cup
                    {[adapter |-> "tsoa", holder |-> "ctor", prop |-> staticMethodName,
                      what |-> actionMetadata.restVerb, arg |-> actionMetadata.path]},
                 \* cls[staticMethodName] = what the adapter's decorator returned
                 !.members = assign(s2.members, "ctor", staticMethodName, "tsoa:returned")]
       ELSE [s2 EXCEPT !.thrown = "Unsupported HTTP method"]

\* @PrepareModel() runs on the class once its member decorators have run
ApplyPrepareModel ==
  /\ bpc = "done"
  /\ decorator = "Action"
  /\ thrown = ""
  /\ Install([PrepareModel(bound, memberKey) EXCEPT !.branch = branch])
  /\ bpc' = "prepared"
  /\ UNCHANGED <<target, memberKey, staticKind, protoKind, inputProps, decorator>>
  /\ UNCHANGED notBindVars

BindNext ==
  \/ ContextParam
  \/ FunctionMetadata
  \/ ApplyAction
  \/ ApplyActionDescribe
  \/ ApplyPrepareModel

SpecBind == BindInit /\ [][BindNext]_vars

(***************************************************************************)
(* Declared types, as design:type metadata or a type option holds them: a  *)
(* value with its typeof and, for an object, the typeof of its values.     *)
(***************************************************************************)
Type(to, id, values) == [typeof |-> to, id |-> id, values |-> values]

GraphQLInt == Type("object", "GraphQLInt", {"string", "function", "undefined"})
FunctionType == Type("function", "Function", {})

DeclaredTypes ==
  {GraphQLInt, FunctionType, NoType,
   Type("function", "Number", {}), Type("function", "String", {}),
   Type("function", "Boolean", {}), Type("function", "Array", {}),
   Type("object", "null", {}),
   Type("object", "enum", {"string"}), Type("object", "enum", {"string", "number"}),
   Type("object", "object", {}), Type("object", "object", {"string", "object"}),
   Type("object", "object", {"function"})}

\* isEnum(value)
isEnum(value) ==
  /\ value.typeof = "object"
  /\ value.id # "null"
  /\ \A v \in value.values : v = "string" \/ v = "number"

\* a type inference that takes every number for an integer
getGraphQLTypeAllInt(paramType) ==
  IF paramType.id \in {"GraphQLInt", "Number"} THEN "GraphQLInt"
  ELSE IF paramType.id = "String" THEN "GraphQLString"
  ELSE IF paramType.id = "Boolean" THEN "GraphQLBoolean"
  ELSE IF isEnum(paramType) THEN "GraphQLEnumType"
  ELSE "GraphQLInputObjectType"

\* getGraphQLType(paramType)
getGraphQLType(paramType) ==
  IF paramType = GraphQLInt THEN "GraphQLInt"
  ELSE IF paramType.id = "Number" THEN "GraphQLFloat"
  ELSE IF paramType.id = "String" THEN "GraphQLString"
  ELSE IF paramType.id = "Boolean" THEN "GraphQLBoolean"
  ELSE IF isEnum(paramType) THEN "GraphQLEnumType"
  ELSE "GraphQLInputObjectType"

(***************************************************************************)
(* Param: one parameter decorator application.  Each variant returns what  *)
(* it registered with the two adapters and the error it threw.             *)
(***************************************************************************)
ParamOut(rest, gql, err) == [rest |-> rest, gql |-> gql, thrown |-> err]

RestParam(extractor, origin, nm, idx) ==
  [extractor |-> extractor, origin |-> origin, name |-> nm, index |-> idx]

GqlArg(nm, idx, nullable, type) ==
  [name |-> nm, index |-> idx, nullable |-> nullable, type |-> type]

\* Reflect.getMetadata("design:type", target, propertyKey) of a method
designType == FunctionType

\* Param of methods.ts: tsoa extractors, called without the name
ParamMethods(o, hasKey, idx) ==
  LET restFormat == IF o.restFormat = "undefined" THEN "body" ELSE o.restFormat
      required == IF o.required = "undefined" THEN TRUE ELSE o.required = "true"
      extractor == CASE restFormat = "body" -> "BodyProp"
                     [] restFormat = "query" -> "Query"
                     [] restFormat = "path" -> "Path"
                     [] OTHER -> ""
  IN IF ~hasKey THEN ParamOut({}, {}, "Property key is required")
     ELSE IF extractor = "" THEN ParamOut({}, {}, "Invalid restFormat")
     ELSE ParamOut({RestParam(extractor, restFormat, <<>>, idx)},
                   {GqlArg(o.name, idx, ~required, o.type)}, "")

\* Param of part_001: typescript-rest extractors, called with the name
ParamPart001(o, hasKey, idx) ==
  LET restFormat == IF o.restFormat = "undefined" THEN "body" ELSE o.restFormat
      required == IF o.required = "undefined" THEN TRUE ELSE o.required = "true"
      extractor == CASE restFormat = "body" -> "BodyProp"
                     [] restFormat = "query" -> "Query"
                     [] restFormat = "path" -> "Path"
                     [] OTHER -> ""
  IN IF ~hasKey THEN ParamOut({}, {}, "Property key is required")
     ELSE IF extractor = "" THEN ParamOut({}, {}, "Invalid restFormat")
     ELSE ParamOut({RestParam(extractor, restFormat, o.name, idx)},
                   {GqlArg(o.name, idx, ~required, "undefined")}, "")

\* !options.required
notRequired(required) == required # "true"

\* Param of parameter.ts
ParamParameter(o, hasKey, idx) ==
  LET typeRESTOn == o.typeREST # "false"
      typeGQLOn == o.typeGQL # "false"
      extractor == CASE o.restFormat = "body" -> "FormParam"
                     [] o.restFormat = "query" -> "QueryParam"
                     [] o.restFormat = "path" -> "PathParam"
                     [] o.restFormat = "file" -> "FileParam"
                     [] o.restFormat = "files" -> "FilesParam"
                     [] o.restFormat = "cookie" -> "CookieParam"
                     [] o.restFormat = "header" -> "HeaderParam"
                     [] OTHER -> ""
      rest == IF typeRESTOn /\ o.restFormat # "undefined" /\ extractor # ""
                THEN {RestParam(extractor, o.restFormat, o.name, idx)} ELSE {}
      gql == IF typeGQLOn
               THEN {GqlArg(o.name, idx, notRequired(o.required),
                            getGraphQLType(designType))}
               ELSE {}
  IN IF ~hasKey THEN ParamOut({}, {}, "Property key is required")
     ELSE IF typeRESTOn /\ o.restFormat # "undefined" /\ extractor = ""
       THEN ParamOut({}, {}, "Invalid restFormat")
     ELSE ParamOut(rest, gql, "")

notParamVars == <<nameVars, liftVars, evalVars, scopeVars, crudVars>>

idName == <<"i">>
otherParamName == <<"k">>
idPath == <<"/", ":", "i">>

ParamOptionsInputs ==
  {[restFormat |-> rf, name |-> nm, required |-> rq, typeREST |-> tr,
    typeGQL |-> tg, type |-> ty] :
     rf \in {"undefined", "body", "query", "path", "header", "form"},
     nm \in {idName, otherParamName},
     rq \in Toggle,
     tr \in {"undefined", "false"}, tg \in {"undefined", "false"},
     ty \in {"undefined", "String"}}

ParamVariants == {"methods.Param", "part_001.Param", "parameter.Param"}

\* the action props of a member whose parameters are declared with Param
ParamPropsInputs ==
  {[NoProps EXCEPT !.path = pa, !.restVerb = rv, !.method = rv] :
     pa \in {<<>>, idPath}, rv \in {"GET", "POST"}}

ParamInit ==
  /\ pVariant = ""
  /\ pOptions = NoParamOptions
  /\ pIndex = 0
  /\ pType \in DeclaredTypes
  /\ gqlKind = ""
  /\ restParams = {}
  /\ gqlArgs = {}
  /\ pThrown = ""
  /\ ppc = "start"
  /\ target = "ctor"
  /\ memberKey = renameKey
  /\ staticKind = "fn"
  /\ protoKind = "none"
  /\ inputProps = NoProps
  /\ bpc = "start"
  /\ decorator = ""
  /\ metadata = {}
  /\ members = {}
  /\ restRoutes = {}
  /\ gqlOps = {}
  /\ thrown = ""
  /\ branch = ""
  /\ NameOff
  /\ LiftOff
  /\ EvalOff
  /\ ScopeOff
  /\ CrudOff

\* @Param(options) on parameter idx of the member (hasKey) or of the
\* constructor (~hasKey): parameter decorators run before the member's
\* method decorators
ApplyParam ==
  /\ ppc = "start"
  /\ \E variant \in ParamVariants, o \in ParamOptionsInputs,
        hasKey \in BOOLEAN, idx \in 0..(MaxArgs - 1) :
       LET out == CASE variant = "methods.Param" -> ParamMethods(o, hasKey, idx)
                    [] variant = "part_001.Param" -> ParamPart001(o, hasKey, idx)
                    [] OTHER -> ParamParameter(o, hasKey, idx)
       IN /\ pVariant' = variant
          /\ pOptions' = o
          /\ pIndex' = idx
          /\ restParams' = out.rest
          /\ gqlArgs' = out.gql
          /\ pThrown' = out.thrown
  /\ ppc' = "declared"
  /\ UNCHANGED <<pType, gqlKind>>
  /\ UNCHANGED <<bindVars, notParamVars>>

\* getGraphQLType(paramType) is called with a declared type
InferType ==
  /\ gqlKind = ""
  /\ gqlKind' = getGraphQLType(pType)
  /\ UNCHANGED <<pVariant, pOptions, pIndex, pType, restParams, gqlArgs, pThrown, ppc>>
  /\ UNCHANGED <<bindVars, notParamVars>>

\* the member's Action decorator runs once its parameter decorators have
\* run without an error: Action of methods.ts next to its Param, Action of
\* the binding engine next to the two others
BindParamAction ==
  /\ ppc = "declared"
  /\ pThrown = ""
  /\ bpc = "start"
  /\ \E input \in ParamPropsInputs :
       /\ inputProps' = input
       /\ IF pVariant = "methods.Param"
            THEN Install(ActionDescribe(bound, input, target, memberKey))
            ELSE Install(ActionBind(bound, input, target, memberKey))
  /\ decorator' = IF pVariant = "methods.Param" THEN "methods.Action" ELSE "Action"
  /\ bpc' = "done"
  /\ ppc' = "bound"
  /\ UNCHANGED <<target, memberKey, staticKind, protoKind>>
  /\ UNCHANGED <<pVariant, pOptions, pIndex, pType, gqlKind, restParams, gqlArgs, pThrown>>
  /\ UNCHANGED notParamVars

ParamNext ==
  \/ ApplyParam
  \/ InferType
  \/ BindParamAction

SpecParam == ParamInit /\ [][ParamNext]_vars

(***************************************************************************)
(* ScopedContext.withScope: calls on one context.  A call pushes its new   *)
(* scope, awaits the action and pops in its finally block; while an action *)
(* is pending other calls on the same context may begin, from within the   *)
(* action or from another request.                                         *)
(***************************************************************************)
MaxCalls == 3

CallIds == 1..MaxCalls
Overrides == {"a", "b"}

notScopeVars == <<nameVars, liftVars, bindVars, evalVars, paramVars, crudVars>>

NoCall ==
  [pc |-> "idle", scope |-> NoScope, before |-> <<>>, after |-> <<>>,
   outcome |-> NotSettled, result |-> NotSettled, popped |-> NoScope]

\* { ...current, ...overrides }: a new object for each call
newScopeOf(c, overrides) == [id |-> c, overrides |-> overrides]

\* a try without finally: the stack is popped only when the action returned
popUnlessThrown(stack, settled) ==
  IF stack = <<>> \/ settled.kind = "threw" THEN stack
  ELSE SubSeq(stack, 1, Len(stack) - 1)

\* finally { this.scopeStack.pop(); }
finallyPop(stack, settled) ==
  IF stack = <<>> THEN stack ELSE SubSeq(stack, 1, Len(stack) - 1)

ScopeInit ==
  /\ scopeStack = <<>>
  /\ calls = [c \in CallIds |-> NoCall]
  /\ open = <<>>
  /\ properlyNested = TRUE
  /\ NameOff
  /\ LiftOff
  /\ BindOff
  /\ EvalOff
  /\ ParamOff
  /\ CrudOff

\* withScope(overrides, action) up to the await: push the new scope and
\* start the action
WithScope(c) ==
  /\ calls[c].pc = "idle"
  /\ \E overrides \in Overrides :
       LET newScope == newScopeOf(c, overrides)
       IN /\ scopeStack' = Append(scopeStack, newScope)
          /\ calls' = [calls EXCEPT ![c] =
                         [@ EXCEPT !.pc = "running", !.scope = newScope,
                                   !.before = scopeStack]]
  /\ open' = Append(open, c)
  /\ UNCHANGED properlyNested
  /\ UNCHANGED notScopeVars

\* the action's promise is fulfilled
ActionReturns(c) ==
  /\ calls[c].pc = "running"
  /\ calls' = [calls EXCEPT ![c] =
                 [@ EXCEPT !.pc = "completed",
                           !.outcome = [kind |-> "returned", val |-> "result"]]]
  /\ UNCHANGED <<scopeStack, open, properlyNested>>
  /\ UNCHANGED notScopeVars

\* the action throws or its promise is rejected
ActionThrows(c) ==
  /\ calls[c].pc = "running"
  /\ calls' = [calls EXCEPT ![c] =
                 [@ EXCEPT !.pc = "completed",
                           !.outcome = [kind |-> "threw", val |-> "error"]]]
  /\ UNCHANGED <<scopeStack, open, properlyNested>>
  /\ UNCHANGED notScopeVars

\* the finally block of call c runs and withScope settles as the action did
Finally(c) ==
  /\ calls[c].pc = "completed"
  /\ scopeStack' = finallyPop(scopeStack, calls[c].outcome)
  /\ calls' = [calls EXCEPT ![c] =
                 [@ EXCEPT !.pc = "settled",
                           !.popped = IF scopeStack = <<>> THEN NoScope
                                      ELSE scopeStack[Len(scopeStack)],
                           !.after = scopeStack',
                           !.result = calls[c].outcome]]
  /\ open' = SelectSeq(open, LAMBDA d : d # c)
  /\ properlyNested' = (properlyNested /\ open[Len(open)] = c)
  /\ UNCHANGED notScopeVars

ScopeNext ==
  \/ \E c \in CallIds : WithScope(c)
  \/ \E c \in CallIds : ActionReturns(c)
  \/ \E c \in CallIds : ActionThrows(c)
  \/ \E c \in CallIds : Finally(c)

SpecScope == ScopeInit /\ [][ScopeNext]_vars

(***************************************************************************)
(* AddCRUDAPI(params)(target): the caller's params are merged over the     *)
(* defaults, then the class expression with the four decorated operations  *)
(* is evaluated.                                                           *)
(***************************************************************************)
CrudRuleInputs == {"absent", "true", "false", "null", "predicate"}

notCrudVars == <<nameVars, liftVars, bindVars, evalVars, paramVars, scopeVars>>

ADD_CRUD_API_DEFAULTS == [op \in CrudOps |-> "false"]

\* { ...ADD_CRUD_API_DEFAULTS, ...params }
mergeCrudParams(params) ==
  [op \in CrudOps |-> IF params[op] = "absent" THEN ADD_CRUD_API_DEFAULTS[op]
                      ELSE params[op]]

\* the names bound where the decorator expressions of the class are evaluated
CrudScopeNames ==
  {"params", "target", "Entity", "ADD_CRUD_API_DEFAULTS", "DropMethod",
   "StaticMethod", "ConditionalMethodDecorator"}

\* the names read by ConditionalMethodDecorator(allowX !== true,
\* EnforcePermission(allowX)) of an operation, in the order they are read
gateNames(op) == <<"allow" \o op, "EnforcePermission">>

\* the class expression: the decorator expressions of APICreate, APIRead,
\* APIUpdate and APIDelete are evaluated in turn, and reading a name that is
\* not bound raises a ReferenceError before any decorator is applied
CrudClass(rules) ==
  LET order == <<"Create", "Read", "Update", "Delete">>
      unbound(op) == {i \in 1..2 : gateNames(op)[i] \notin CrudScopeNames}
      failing == {k \in 1..4 : unbound(order[k]) # {}}
      first == CHOOSE k \in failing : \A j \in failing : k <= j
      firstName == gateNames(order[first])
                     [CHOOSE i \in unbound(order[first]) :
                        \A j \in unbound(order[first]) : i <= j]
  IN [thrown |-> "ReferenceError: " \o firstName \o " is not defined",
      exposed |-> {}, gated |-> {}]

CrudInit ==
  /\ crudParams \in [CrudOps -> CrudRuleInputs]
  /\ crudRules = [op \in CrudOps |-> "absent"]
  /\ crudExposed = {}
  /\ crudGated = {}
  /\ crudThrown = ""
  /\ cpc = "start"
  /\ NameOff
  /\ LiftOff
  /\ BindOff
  /\ EvalOff
  /\ ParamOff
  /\ ScopeOff

\* AddCRUDAPI(params): the merge, and the class decorator is returned
CallAddCRUDAPI ==
  /\ cpc = "start"
  /\ crudRules' = mergeCrudParams(crudParams)
  /\ cpc' = "merged"
  /\ UNCHANGED <<crudParams, crudExposed, crudGated, crudThrown>>
  /\ UNCHANGED notCrudVars

\* the returned decorator is applied to an entity class
ApplyToEntity ==
  /\ cpc = "merged"
  /\ LET cls == CrudClass(crudRules)
     IN /\ crudExposed' = cls.exposed
        /\ crudGated' = cls.gated
        /\ crudThrown' = cls.thrown
  /\ cpc' = "applied"
  /\ UNCHANGED <<crudParams, crudRules>>
  /\ UNCHANGED notCrudVars

CrudNext == CallAddCRUDAPI \/ ApplyToEntity

SpecCrud == CrudInit /\ [][CrudNext]_vars

(***************************************************************************)
(* C1.  In every invocation of a lifted static callable the load is        *)
(* performed exactly once and has completed before the original instance   *)
(* method is started; the method is never started while the load is        *)
(* pending.                                                                *)
(***************************************************************************)
C1_LoadCompleteBeforeMethod ==
  handlerCalls > 0 => (loadCount = 1 /\ loadAtStart = "resolved")

(***************************************************************************)
(* C2.  When the id matches no entity the call fails with the not-found    *)
(* error and the instance method is never invoked, whatever empty result   *)
(* the load returns.                                                       *)
(***************************************************************************)
C2_NotFoundNeverInvokes ==
  (lpc # "idle" /\ callId \notin db) =>
    /\ handlerCalls = 0
    /\ (lpc = "done" /\ loadState = "resolved") => outcome = InstanceNotFound

(***************************************************************************)
(* C3.  When the load finds an entity, the instance method is invoked with *)
(* that single entity as receiver and exactly the caller's arguments after *)
(* the id, and the callable's outcome is the method's outcome.             *)
(***************************************************************************)
C3_ForwardsToLoadedEntity ==
  (lpc \in {"running", "done"} /\ loadState = "resolved" /\ callId \in db) =>
    /\ handlerCalls = 1
    /\ receiver = Val("entity", <<callId>>)
    /\ handlerArgs = callArgs
    /\ lpc = "done" => outcome = handlerOutcome

(***************************************************************************)
(* C4.  When the action's permission rule is false, or a predicate that    *)
(* returns false for the call's context, the invocation fails with an      *)
(* authorization failure: no load is started and the handler never runs.   *)
(***************************************************************************)
C4_DeniedBeforeLoadAndHandler ==
  (lpc # "idle"
   /\ convertToValue(rule, PhaseContext(ctxUser, "u1")).value = Plain("false")) =>
    /\ loadCount = 0
    /\ handlerCalls = 0
    /\ lpc = "done" => outcome = Unauthorized

(***************************************************************************)
(* C5.  Lifting preserves metadata: every piece of metadata attached to    *)
(* the instance member before lifting (the action descriptor, a permission *)
(* rule, parameter bindings) is carried with the identical value by the    *)
(* synthesized static callable.                                            *)
(***************************************************************************)
AttachedToMember(m) ==
  \/ m.holder = target /\ m.prop = memberKey
  \/ m.holder = "instanceMethod" /\ m.prop = NoProp

CarriedBy(callable, m) ==
  \E c \in metadata :
    /\ \/ c.holder = callable.fn /\ c.prop = NoProp
       \/ c.holder = callable.holder /\ c.prop = callable.name
    /\ c.key = m.key
    /\ c.props = m.props
    /\ c.index = m.index

C5_LiftingPreservesMetadata ==
  (bpc = "done" /\ decorator = "Action" /\ thrown = "") =>
    \A callable \in members :
      \A m \in metadata : AttachedToMember(m) => CarriedBy(callable, m)

(***************************************************************************)
(* C6.  For the decorated member exactly one of isStaticMethod and         *)
(* isInstanceMethod is true, or building its descriptor fails with an      *)
(* error: the verdicts are never both true, and a member for which both    *)
(* are false is rejected.                                                  *)
(***************************************************************************)
C6_ExactlyOneVerdictOrError ==
  (bpc = "done" /\ decorator = "methods.Action") =>
    \/ thrown # "" /\ ~isStaticMethod(target, memberKey)
                   /\ ~isInstanceMethod(target, memberKey)
    \/ isStaticMethod(target, memberKey) # isInstanceMethod(target, memberKey)

(***************************************************************************)
(* C7.  The lifter runs exactly for instance members: applied to a method  *)
(* declared static on the class, Action takes the static branch and        *)
(* synthesizes no loader-wrapped callable; applied to a method declared    *)
(* only on the prototype, it takes the lifting branch.                     *)
(***************************************************************************)
C7_LifterRunsForInstanceMembersOnly ==
  (bpc = "done" /\ decorator = "Action") =>
    /\ (target = "ctor" /\ staticKind = "fn") =>
         (branch = "static" /\ members = {})
    /\ (target = "proto" /\ protoKind = "fn" /\ staticKind = "none") =>
         branch = "instance"

(***************************************************************************)
(* C8.  For every member identifier m the derived name is m with a         *)
(* separator before each upper-case letter, every letter lower-cased and   *)
(* one leading separator stripped, and the default path is "/" followed by *)
(* that name.  Stated by position: character i of m lands at position      *)
(* i + (upper-case letters among the first i) - (1 if a leading separator  *)
(* was stripped), in lower case, with a separator right before it when it  *)
(* was upper-case.                                                         *)
(***************************************************************************)
UppersUpTo(s, i) == Cardinality({j \in 1..i : s[j] \in UpperCase})

LeadStripped(s) == IF s[1] \in UpperCase \/ s[1] = Separator THEN 1 ELSE 0

IsSeparatedLowerCase(m, n) ==
  /\ Len(n) = Len(m) + UppersUpTo(m, Len(m)) - LeadStripped(m)
  /\ \A i \in 1..Len(m) :
       LET p == i + UppersUpTo(m, i) - LeadStripped(m)
       IN /\ p >= 1 => n[p] = toLowerCase(m[i])
          /\ (m[i] \in UpperCase /\ p >= 2) => n[p - 1] = Separator

C8_NameIsSeparatedLowerCase ==
  npc # "start" =>
    /\ IsSeparatedLowerCase(propertyKey, name)
    /\ path = <<"/">> \o name

\* aB (as in createMultiple) and a leading capital, both derived
C8_Witness ==
  /\ npc = "derived"
  /\ propertyKey = <<"A", "b", "B">>
  /\ name = <<"a", "b", "_", "b">>
  /\ path = <<"/", "a", "b", "_", "b">>

(***************************************************************************)
(* C9.  Name derivation is idempotent: applying the derivation to the      *)
(* already derived name of m returns that same name.                       *)
(***************************************************************************)
C9_DerivationIdempotent == npc = "again" => name2 = name

(***************************************************************************)
(* C10.  Two distinct identifiers that differ only in letter case never    *)
(* derive the same name (and so never the same default path).              *)
(***************************************************************************)
C10_NoCaseCollision ==
  (npc = "pair" /\ otherKey # propertyKey /\ SameUpToCase(otherKey, propertyKey))
    => otherName # name

(***************************************************************************)
(* The descriptor the binding decorator leaves on the member:              *)
(* Reflect.getMetadata(ACTION_PARAM_DECORATOR_KEY, target, propertyKey).   *)
(***************************************************************************)
HasActionProps ==
  \E m \in metadata :
    m.holder = target /\ m.prop = memberKey /\ m.key = ACTION_PARAM_DECORATOR_KEY

ActionProps ==
  (CHOOSE m \in metadata :
     m.holder = target /\ m.prop = memberKey /\ m.key = ACTION_PARAM_DECORATOR_KEY).props

GQLOptionsGiven(p) ==
  \/ p.typeGQLQueryOptions # "undefined"
  \/ p.typeGQLMutationOptions # "undefined"
  \/ p.typeGQLSubscriptionOptions # "undefined"

(***************************************************************************)
(* C11.  In every descriptor built by Action each of the two toggles is    *)
(* true when the caller says nothing, is the caller's value when given,    *)
(* and is true whenever the caller supplies that protocol's option object, *)
(* also when the caller passed false; the option object of one protocol    *)
(* has no effect on the toggle of the other.                               *)
(***************************************************************************)
C11_TogglesDefaultAndForced ==
  (bpc = "done" /\ decorator = "Action") =>
    /\ HasActionProps
    /\ ActionProps.autogenTypeRest =
         (IF inputProps.typeRESTOptions # "undefined" THEN "true"
          ELSE IF inputProps.autogenTypeRest = "undefined" THEN "true"
          ELSE inputProps.autogenTypeRest)
    /\ ActionProps.autogenTypeGQL =
         (IF GQLOptionsGiven(inputProps) THEN "true"
          ELSE IF inputProps.autogenTypeGQL = "undefined" THEN "true"
          ELSE inputProps.autogenTypeGQL)

\* REST forced on by its option object against the caller's false, while the
\* GraphQL toggle keeps the caller's false
C11_Witness ==
  /\ bpc = "done" /\ decorator = "Action"
  /\ inputProps.autogenTypeRest = "false" /\ inputProps.typeRESTOptions = "given"
  /\ inputProps.autogenTypeGQL = "false" /\ ~GQLOptionsGiven(inputProps)
  /\ HasActionProps
  /\ ActionProps.autogenTypeRest = "true"
  /\ ActionProps.autogenTypeGQL = "false"

(***************************************************************************)
(* The descriptor the descriptor-only decorator leaves on the member:      *)
(* Reflect.getMetadata(ACTION_DECORATOR_KEY, target, propertyKey).         *)
(***************************************************************************)
HasPropsWithDefaults ==
  \E m \in metadata :
    m.holder = target /\ m.prop = memberKey /\ m.key = ACTION_DECORATOR_KEY

PropsWithDefaults ==
  (CHOOSE m \in metadata :
     m.holder = target /\ m.prop = memberKey /\ m.key = ACTION_DECORATOR_KEY).props

(***************************************************************************)
(* C12.  In every descriptor built without a path override the path is     *)
(* "/" followed by the descriptor's own name, also when the caller         *)
(* overrides the name; with a path override the path is the caller's.      *)
(***************************************************************************)
C12_PathFollowsName ==
  (bpc = "done" /\ decorator = "methods.Action" /\ thrown = "") =>
    /\ HasPropsWithDefaults
    /\ PropsWithDefaults.path =
         (IF inputProps.path # <<>> THEN inputProps.path
          ELSE <<"/">> \o PropsWithDefaults.name)

(***************************************************************************)
(* obj[nm] for the members the decorators create: an own member of obj.    *)
(* The class does not inherit from its prototype, so a member stored on    *)
(* the prototype is not found on the class.                                *)
(***************************************************************************)
Synthesized == {"staticMethod:gql", "staticMethod:rest"}

lookup(obj, nm) ==
  IF \E m \in members : m.holder = obj /\ m.name = nm
    THEN (CHOOSE m \in members : m.holder = obj /\ m.name = nm).fn
    ELSE "undefined"

(***************************************************************************)
(* C13.  For an instance member the synthesized static callable is         *)
(* registered on the class itself (the constructor, not the prototype)     *)
(* under the descriptor's staticName, which is "<name>Static" unless the   *)
(* caller overrides it: after Action completes, staticName looked up on    *)
(* the class is the synthesized callable.                                  *)
(***************************************************************************)
C13_RegisteredOnClass ==
  (/\ bpc = "done" /\ decorator = "Action" /\ thrown = ""
   /\ target = "proto" /\ protoKind = "fn" /\ branch = "instance"
   /\ "true" \in {ActionProps.autogenTypeRest, ActionProps.autogenTypeGQL}) =>
     /\ ActionProps.staticName =
          (IF inputProps.staticName # <<>> THEN inputProps.staticName
           ELSE snakeCaseName(memberKey) \o StaticSuffix)
     /\ lookup("ctor", ActionProps.staticName) \in Synthesized

(***************************************************************************)
(* The kinds and verbs the two adapters support, and a GraphQL             *)
(* configuration that binds.                                               *)
(***************************************************************************)
GQLKinds == {"query", "mutation", "subscription"}

GQLConfigValid(p) ==
  \/ p.autogenTypeGQL # "true"
  \/ p.gqlMethod \in {"query", "mutation"}
  \/ p.gqlMethod = "subscription" /\ p.typeGQLSubscriptionOptions # "undefined"

(***************************************************************************)
(* C14.  An action whose restVerb is absent gets no REST binding and       *)
(* raises no error: whatever the REST toggle, also its default true,       *)
(* applying Action registers nothing with the REST adapter and completes   *)
(* normally, and the GraphQL binding is made as without REST.              *)
(***************************************************************************)
C14_AbsentVerbDisablesRest ==
  (/\ bpc = "done" /\ decorator = "Action" /\ branch # "neither"
   /\ inputProps.restVerb = "undefined"
   /\ GQLConfigValid(ActionProps)) =>
     /\ thrown = ""
     /\ restRoutes = {}
     /\ ActionProps.autogenTypeGQL = "true" => gqlOps # {}

(***************************************************************************)
(* C15.  Configuration errors are raised at bind time, never at call       *)
(* time: applying Action with a restVerb outside the seven supported       *)
(* verbs, with a GraphQL kind outside query, mutation and subscription, or *)
(* with kind subscription and no subscription options, throws while the    *)
(* decorator is applied, and nothing that was bound without an error       *)
(* carries an unsupported verb or kind.                                    *)
(***************************************************************************)
UnsupportedConfig(p) ==
  \/ p.restVerb \notin RestVerbs \cup {"undefined"}
  \/ p.gqlMethod \notin GQLKinds
  \/ p.gqlMethod = "subscription" /\ p.typeGQLSubscriptionOptions = "undefined"

C15_ConfigErrorsAtBindTime ==
  (bpc = "done" /\ decorator = "Action") =>
    /\ UnsupportedConfig(ActionProps) => thrown # ""
    /\ thrown = "" =>
         /\ \A r \in restRoutes : r.what \in RestVerbs \cup {"Path", "BodyOptions"}
         /\ \A o \in gqlOps :
              /\ o.kind \in GQLKinds
              /\ o.kind = "subscription" =>
                   ActionProps.typeGQLSubscriptionOptions # "undefined"

(***************************************************************************)
(* C16.  A descriptor with both toggles false is legal: applying Action to *)
(* a member that is static or instance with both toggles false completes   *)
(* without error, registers nothing with either adapter and synthesizes no *)
(* static callable.                                                        *)
(***************************************************************************)
C16_BothOffIsSilent ==
  (/\ bpc = "done" /\ decorator = "Action"
   /\ ActionProps.autogenTypeRest = "false"
   /\ ActionProps.autogenTypeGQL = "false"
   /\ isStaticMethod(target, memberKey) \/ isInstanceMethod(target, memberKey)) =>
     /\ thrown = ""
     /\ restRoutes = {}
     /\ gqlOps = {}
     /\ members = {}

\* an instance member decorated with both toggles false, an unsupported verb
\* included
C16_Witness ==
  /\ bpc = "done" /\ decorator = "Action"
  /\ target = "proto" /\ protoKind = "fn" /\ branch = "instance"
  /\ inputProps.autogenTypeRest = "false" /\ inputProps.autogenTypeGQL = "false"
  /\ ActionProps.autogenTypeRest = "false" /\ ActionProps.autogenTypeGQL = "false"
  /\ inputProps.restVerb = "TRACE"
  /\ thrown = "" /\ restRoutes = {} /\ gqlOps = {} /\ members = {}

(***************************************************************************)
(* C18.  Permission evaluation returns a rule that is not a function       *)
(* unchanged, calling nothing and not touching the context; for a          *)
(* predicate rule it calls the predicate exactly once, with the phase      *)
(* context it was given, and returns the result of that call.              *)
(***************************************************************************)
C18_ValueUnchangedPredicateOnce ==
  (epc = "evaluated" /\ evalVia = "convertToValue") =>
    IF evalRule.kind = "plain"
      THEN /\ evalOut.value = evalRule
           /\ evalOut.calls = <<>>
      ELSE /\ Len(evalOut.calls) = 1
           /\ evalOut.calls[1].fn = evalRule
           /\ evalOut.calls[1].args = evalCtx
           /\ evalOut.value = apply(evalRule, evalCtx)

\* a plain rule that is not a boolean came back as it was
C18_Witness ==
  /\ epc = "evaluated" /\ evalVia = "convertToValue"
  /\ evalRule = Plain("Hello")
  /\ evalOut.value = Plain("Hello")
  /\ evalOut.calls = <<>>

(***************************************************************************)
(* C19.  A rule is evaluated afresh on every invocation: over any sequence *)
(* of evaluations of one predicate rule with changing contexts, the value  *)
(* of each evaluation is the predicate applied to the context of that      *)
(* evaluation, never a value kept from an earlier one.                     *)
(***************************************************************************)
C19_EvaluatedFreshEachTime ==
  evalRule.kind = "fn" =>
    \A i \in 1..Len(evalLog) : evalLog[i].value = apply(evalRule, evalLog[i].ctx)

\* the same predicate allowed one request and denied the next
C19_Witness ==
  /\ evalRule = Fn("isOwner")
  /\ Len(evalLog) >= 2
  /\ evalLog[1].value = Plain("true")
  /\ evalLog[2].value = Plain("false")

(***************************************************************************)
(* What the adapters hold for the decorated action: the verb routes of     *)
(* each REST adapter, the GraphQL operations, and the callable a binding   *)
(* made for (holder, prop) dispatches to.                                  *)
(***************************************************************************)
RestAdapters == {"typescript-rest", "tsoa"}

RestBound(a) == {r \in restRoutes : r.adapter = a /\ r.what \in RestVerbs}

dispatched(obj, nm) ==
  IF lookup(obj, nm) # "undefined" THEN lookup(obj, nm)
  ELSE IF kindOf(obj, nm) = "fn" THEN "declared"
  ELSE "undefined"

(***************************************************************************)
(* C17.  Binding is idempotent: however often the descriptor of a member   *)
(* has been bound without an error, each adapter holds at most one REST    *)
(* route and one GraphQL operation for the action, and one callable is     *)
(* stored under staticName.                                                *)
(***************************************************************************)
C17_BindingIdempotent ==
  (bpc \in {"done", "prepared"} /\ decorator = "Action" /\ thrown = "") =>
    /\ \A a \in RestAdapters : Cardinality(RestBound(a)) <= 1
    /\ Cardinality(gqlOps) <= 1
    /\ Cardinality({m \in members : m.name = ActionProps.staticName}) <= 1

C21_DescriptorNeverMutated ==
  [][/\ (bpc' = "done" /\ decorator' = "Action") =>
          (HasActionProps' /\ ActionProps' = mergeProps(inputProps', memberKey'))
     /\ (bpc = "done" /\ decorator = "Action") =>
          (HasActionProps' /\ ActionProps' = ActionProps)]_vars

\* PrepareModel has bound the stored descriptor, which still is the merged props
C21_Witness ==
  /\ bpc = "prepared"
  /\ \E o \in gqlOps : o.holder = "ctor"
  /\ \E r \in restRoutes : r.adapter = "tsoa"
  /\ HasActionProps
  /\ ActionProps = mergeProps(inputProps, memberKey)

(***************************************************************************)
(* What Param left behind, once it ran without an error.                   *)
(***************************************************************************)
ParamDeclared == ppc \in {"declared", "bound"} /\ pThrown = ""

\* the REST side of this Param was not switched off by the caller
RestWanted == pVariant = "parameter.Param" => pOptions.typeREST # "false"

\* the names of the parameters of a path template: what follows a colon up
\* to the next slash
PathParams(template) ==
  {SubSeq(template, ij[1] + 1, ij[2]) :
     ij \in {p \in (1..Len(template)) \X (1..Len(template)) :
               /\ template[p[1]] = ":"
               /\ p[2] > p[1]
               /\ \A k \in (p[1] + 1)..p[2] : template[k] # "/"
               /\ (p[2] = Len(template) \/ template[p[2] + 1] = "/")}}

\* the path of the descriptor the member's Action stored
DescriptorPath ==
  IF decorator = "Action" THEN ActionProps.path ELSE PropsWithDefaults.path

(***************************************************************************)
(* C22.  In every Param variant a parameter declared without restFormat    *)
(* is registered with the REST adapter as a body parameter.                *)
(***************************************************************************)
C22_OmittedOriginIsBody ==
  (ParamDeclared /\ RestWanted /\ pOptions.restFormat = "undefined") =>
    \E r \in restParams : r.origin = "body" /\ r.index = pIndex

(***************************************************************************)
(* C23.  Param registers the GraphQL argument under the same name and      *)
(* parameter index as the REST extractor, and the argument is nullable     *)
(* exactly when the caller passed required: false; without `required` the  *)
(* argument is non-nullable, in every Param variant.                       *)
(***************************************************************************)
C23_SameMappingInBothAdapters ==
  ParamDeclared =>
    \A g \in gqlArgs :
      /\ g.name = pOptions.name
      /\ g.index = pIndex
      /\ g.nullable <=> (pOptions.required = "false")
      /\ \A r \in restParams : r.name = g.name /\ r.index = g.index

(***************************************************************************)
(* C24.  No action is bound while the name of one of its path-origin       *)
(* parameters is missing from the path template of its descriptor.         *)
(***************************************************************************)
C24_PathParamNamedInTemplate ==
  (ppc = "bound" /\ thrown = "" /\ pOptions.restFormat = "path" /\ restParams # {}) =>
    pOptions.name \in PathParams(DescriptorPath)

GQLTypeKinds ==
  {"GraphQLInt", "GraphQLFloat", "GraphQLString", "GraphQLBoolean",
   "GraphQLEnumType", "GraphQLInputObjectType"}

Pending == {c \in DOMAIN calls : calls[c].pc \in {"running", "completed"}}

Settled == {c \in DOMAIN calls : calls[c].pc = "settled"}

OnStack(scope) == \E i \in 1..Len(scopeStack) : scopeStack[i] = scope

(***************************************************************************)
(* C26.  When withScope calls on one ScopedContext overlap, each call pops *)
(* exactly the scope it pushed, and the scope of a call whose action is    *)
(* still running is still on scopeStack.                                   *)
(***************************************************************************)
C26_EachCallPopsItsOwnScope ==
  /\ \A c \in Settled : calls[c].popped = calls[c].scope
  /\ \A c \in Pending : OnStack(calls[c].scope)

(***************************************************************************)
(* C27.  For sequential or properly nested withScope calls: while calls    *)
(* are open the top of scopeStack is the scope passed to the innermost     *)
(* action; once a call settled, returned or thrown, scopeStack is what it  *)
(* was before the call, and the call settled with the action's result or   *)
(* error.                                                                  *)
(***************************************************************************)
C27_ScopeStackBalanced ==
  properlyNested =>
    /\ open # <<>> =>
         /\ scopeStack # <<>>
         /\ scopeStack[Len(scopeStack)] = calls[open[Len(open)]].scope
    /\ \A c \in Settled :
         /\ calls[c].after = calls[c].before
         /\ calls[c].result = calls[c].outcome
         /\ calls[c].result.kind \in {"returned", "threw"}
    /\ (open = <<>>) => scopeStack = <<>>

\* a call nested in another one threw, the outer one returned, both settled
\* and the stack is empty again
C27_Witness ==
  /\ properlyNested
  /\ \E c, d \in Settled :
       /\ calls[d].before = <<calls[c].scope>>
       /\ calls[d].result.kind = "threw"
       /\ calls[c].result.kind = "returned"
       /\ calls[c].before = <<>>
  /\ scopeStack = <<>>

\* Action threw while it was applied to the member
ActionThrew == bpc = "done" /\ thrown # ""

(***************************************************************************)
(* C28.  Whenever applying Action to a member throws a configuration       *)
(* error, no descriptor metadata is attached to the member, no static      *)
(* callable has been added to the class and nothing has been registered    *)
(* for it with either adapter.                                             *)
(***************************************************************************)
C28_ActionAllOrNothing ==
  ActionThrew =>
    /\ ~HasActionProps
    /\ ~HasPropsWithDefaults
    /\ members = {}
    /\ restRoutes = {}
    /\ gqlOps = {}

(***************************************************************************)
(* C30.  convertToPredicate(v)(a) equals convertToValue(v, a) for every    *)
(* value-or-predicate v and argument list a; convertToPredicate returns a  *)
(* function v itself, and for a non-function v a function that yields v    *)
(* for every argument list.                                                *)
(***************************************************************************)
C30_PredicateAgreesWithValue ==
  /\ (epc = "evaluated" /\ evalVia = "convertToPredicate") =>
       evalOut.value = convertToValue(evalRule, evalCtx).value
  /\ epc # "off" =>
       /\ \A a \in Contexts :
            apply(convertToPredicate(evalRule), a) = convertToValue(evalRule, a).value
       /\ IsFunction(evalRule) => convertToPredicate(evalRule) = evalRule
       /\ ~IsFunction(evalRule) =>
            /\ IsFunction(convertToPredicate(evalRule))
            /\ \A a \in Contexts : apply(convertToPredicate(evalRule), a) = evalRule

\* the predicate made from the plain value "Hello" was called for two
\* requests and answered "Hello"
C30_Witness ==
  /\ epc = "evaluated" /\ evalVia = "convertToPredicate"
  /\ evalRule = Plain("Hello")
  /\ evalOut.value = Plain("Hello")
  /\ Len(evalLog) >= 2

(***************************************************************************)
(* C29.  AddCRUDAPI merges the caller's params over defaults that are all  *)
(* false and generates a class from which every operation whose rule is    *)
(* false or null is dropped, in which the other operations are exposed,    *)
(* and in which every exposed operation whose rule is not the literal true *)
(* is wrapped by permission enforcement.                                   *)
(***************************************************************************)
C29_DeniesByDefault ==
  /\ cpc \in {"merged", "applied"} =>
       \A op \in CrudOps :
         crudRules[op] = IF crudParams[op] = "absent" THEN "false" ELSE crudParams[op]
  /\ cpc = "applied" =>
       /\ crudThrown = ""
       /\ \A op \in CrudOps :
            /\ crudRules[op] \in {"false", "null"} <=> op \notin crudExposed
            /\ (op \in crudExposed /\ crudRules[op] # "true") => op \in crudGated

====
